---- MODULE Spec2Model ----
(***************************************************************************)
(* A model of the AWS Resource Optimizer Agent repository:                 *)
(*   src/agent.py          the interactive agent (startup, memory, loop)   *)
(*   src/runtime_agent.py  the AgentCore Runtime edition                   *)
(*   src/setup/0*.py       the provisioning scripts                        *)
(* External services (Cognito, the gateway, the memory service, the model, *)
(* IAM, the control plane) are the environment: each call to one of them   *)
(* either answers or raises, chosen nondeterministically.                  *)
(***************************************************************************)
EXTENDS Integers, Sequences, FiniteSets, TLC

VARIABLES
    prog,          \* which program of the repository is running
    pc,            \* its position
    trace,         \* the external calls and console reads it has made, in order
    printed,       \* what the current step sequence has printed to the console
    served,        \* the pages the gateway serves: the k-th list_tools_sync call gets served[k]
    fl,            \* locals of get_full_tools_list (agent.py)
    gl,            \* locals of get_tools (runtime_agent.py)
    all_tools,     \* agent.py: all_tools of create_resource_optimizer_agent
    tools,         \* agent.py: tools of create_resource_optimizer_agent
    memories,      \* the memory service: what list_memories returns
    config,        \* agent.py: the config dict (its 'memory' entry)
    config_json,   \* the 'memory' entry of the file config.json
    mcall,         \* the last call of create_or_get_memory: what it saw and did
    created,       \* the memories created on the service by create_or_get_memory
    user_input,    \* agent.py main: the line read by input()
    response,      \* agent.py main: what agent(user_input) returned
    access_token,  \* agent.py: the token captured by the transport lambda
    session,       \* the MCP client session: "closed" or "open"
    agent,         \* the Agent object
    messages,      \* agent.messages, as the memory hook sees them
    agent_state,   \* agent.state: actor_id and session_id
    create_events, \* the create_event calls made on the memory client, in order
    propagated,    \* whether an exception has left on_message_added
    fetched,       \* runtime_agent.py: the tokens fetched so far (their number)
    transports,    \* runtime_agent.py: the token each transport was built with
    created_targets, \* 03-create-smithy-targets.py: created_targets
    target_idx     \* 03-create-smithy-targets.py: the targets handled so far

commonVars == <<prog, pc, trace, printed>>
toolVars == <<served, fl, gl, all_tools, tools>>
memVars == <<memories, config, config_json, mcall, created>>
loopVars == <<user_input, response>>
sessVars == <<access_token, session, agent>>
hookVars == <<messages, agent_state, create_events, propagated>>
extVars == <<messages, agent_state, create_events, propagated, fetched, transports,
             created_targets, target_idx>>
vars == <<prog, pc, trace, printed, served, fl, gl, all_tools, tools,
          memories, config, config_json, mcall, created, user_input, response,
          access_token, session, agent, messages, agent_state, create_events,
          propagated, fetched, transports, created_targets, target_idx>>

None == "None"

\* an entry of trace: a call that returned, and a call that raised
Ev(c) == [call |-> c, ok |-> TRUE]
Raised(c) == [call |-> c, ok |-> FALSE]

\* the entries of a sequence of calls of which the last one raised, if any did
CallsOf(calls, raised) ==
    [i \in 1..Len(calls) |-> [call |-> calls[i], ok |-> ~(raised /\ i = Len(calls))]]

----------------------------------------------------------------------------
(* Bounds of the model *)

MaxPages == 2          \* pages served by the gateway
MaxPageTools == 1      \* tools on one page
MaxListed == 2         \* memories the service lists before the program first runs
MaxMemoryCalls == 3    \* calls of create_or_get_memory in one run
MaxTextLen == 4        \* tokens of a text returned by the agent
MaxInputs == 3         \* input() calls of one run of the interactive loop
MaxMessages == 3       \* messages added to the agent's conversation
MaxInvocations == 3    \* invoke calls served by runtime_agent.py

----------------------------------------------------------------------------
(* Tools and pages *)

\* tool names of 63, 64 and 65 characters
Name63 == "cloudwatch_target___describe_alarms_for_metric_with_suffix_0063"
Name64 == "cloudwatch_target___describe_alarms_for_metric_with_suffix_00064"
Name65 == "cloudwatch_target___describe_alarms_for_metric_with_suffix_000065"

ToolSet == {[tool_name |-> n] : n \in {Name63, Name64, Name65}}

PageTokens == {"t1", "t2"}

SeqsUpTo(S, n) == UNION {[1..k -> S] : k \in 0..n}

\* what list_tools_sync returns: a list of tools carrying a pagination_token
Pages == [tools : SeqsUpTo(ToolSet, MaxPageTools), pagination_token : PageTokens \cup {None}]

ServedSeqs == UNION {[1..k -> Pages] : k \in 1..MaxPages}

\* agent.py get_full_tools_list: the locals before the loop
FlInit == [more_tools |-> TRUE, tools |-> <<>>, pagination_token |-> None, calls |-> <<>>]

\* agent.py get_full_tools_list: one iteration of the while loop, tmp_tools being
\* what list_tools_sync(pagination_token=pagination_token) returned
FlIterOverwrite(l, tmp_tools) ==
    [more_tools |-> tmp_tools.pagination_token # None,
     tools |-> tmp_tools.tools,
     pagination_token |-> IF tmp_tools.pagination_token = None
                          THEN l.pagination_token ELSE tmp_tools.pagination_token,
     calls |-> Append(l.calls, l.pagination_token)]

FlIter(l, tmp_tools) ==
    [more_tools |-> tmp_tools.pagination_token # None,
     tools |-> l.tools \o tmp_tools.tools,
     pagination_token |-> IF tmp_tools.pagination_token = None
                          THEN l.pagination_token ELSE tmp_tools.pagination_token,
     calls |-> Append(l.calls, l.pagination_token)]

\* runtime_agent.py get_tools: the locals before the loop
GlInit == [looping |-> TRUE, all_tools |-> <<>>, pagination_token |-> None,
           calls |-> <<>>, tools |-> <<>>, returned |-> FALSE]

\* runtime_agent.py get_tools: one iteration of the while True loop
GlIter(l, result) ==
    [l EXCEPT !.looping = result.pagination_token # None,
              !.all_tools = l.all_tools \o result.tools,
              !.pagination_token = IF result.pagination_token = None
                                   THEN l.pagination_token ELSE result.pagination_token,
              !.calls = Append(l.calls, l.pagination_token)]

\* agent.py create_resource_optimizer_agent: tools = [tool for tool in all_tools if ...]
FilterToolsStrict(all) == SelectSeq(all, LAMBDA tool : Len(tool.tool_name) < 64)

FilterTools(all) == SelectSeq(all, LAMBDA tool : Len(tool.tool_name) <= 64)

\* runtime_agent.py get_tools: tools = [t for t in all_tools if ...]
GetToolsFilter(all) == SelectSeq(all, LAMBDA t : Len(t.tool_name) <= 64)

\* get_full_tools_list run to its end against the pages srv (agent.py startup);
\* it stops early, with more_tools still set, when the gateway has no further page
RECURSIVE FlRun(_, _)
FlRun(l, srv) ==
    IF ~l.more_tools \/ Len(l.calls) >= Len(srv) THEN l
    ELSE FlRun(FlIter(l, srv[Len(l.calls) + 1]), srv)

----------------------------------------------------------------------------
(* agent.py main: the post-processing of the agent's answer (lines 328-343). *)
(* A text is a sequence of tokens: the tags, a blank, the phrases the code  *)
(* looks for, and other text.                                               *)

TextTokens == {"<thinking>", "<THINKING>", "</thinking>", " ", "x", "rate limit", "throttl"}

Texts == SeqsUpTo(TextTokens, MaxTextLen)

\* str.lower() on a token
Lower(t) == IF t = "<THINKING>" THEN "<thinking>" ELSE t

\* what the patterns match under re.IGNORECASE
IsOpenCaseSensitive(t) == t = "<thinking>"
IsOpen(t) == Lower(t) = "<thinking>"
IsClose(t) == Lower(t) = "</thinking>"
IsSpace(t) == t = " "

\* the number of leading tokens of s that \s* takes
RECURSIVE SpaceRun(_)
SpaceRun(s) == IF s # <<>> /\ IsSpace(Head(s)) THEN 1 + SpaceRun(Tail(s)) ELSE 0

Drop(s, n) == SubSeq(s, n + 1, Len(s))

\* re.sub(r'<thinking>.*?</thinking>\s*', '', response, flags=re.DOTALL | re.IGNORECASE):
\* left to right, each opening tag that has a closing tag after it is removed with
\* everything up to the first such closing tag and the blanks that follow it
RECURSIVE RemoveBlocks(_)
RemoveBlocks(s) ==
    IF s = <<>> THEN <<>>
    ELSE IF IsOpen(s[1]) /\ \E j \in 2..Len(s) : IsClose(s[j])
    THEN LET j == CHOOSE j \in 2..Len(s) :
                    IsClose(s[j]) /\ \A i \in 2..(j - 1) : ~IsClose(s[i])
             rest == Drop(s, j)
         IN RemoveBlocks(Drop(rest, SpaceRun(rest)))
    ELSE <<s[1]>> \o RemoveBlocks(Tail(s))

\* the number of trailing tokens of s that are blanks
RECURSIVE TrailingSpaces(_)
TrailingSpaces(s) ==
    IF s # <<>> /\ IsSpace(s[Len(s)]) THEN 1 + TrailingSpaces(SubSeq(s, 1, Len(s) - 1)) ELSE 0

\* re.sub(r'\s*<thinking>.*', '', cleaned_response, flags=re.DOTALL | re.IGNORECASE):
\* the first opening tag, the blanks before it and everything after it are removed
RemoveRest(s) ==
    IF \E p \in 1..Len(s) : IsOpen(s[p])
    THEN LET p == CHOOSE p \in 1..Len(s) : IsOpen(s[p]) /\ \A i \in 1..(p - 1) : ~IsOpen(s[i])
             before == SubSeq(s, 1, p - 1)
         IN SubSeq(before, 1, Len(before) - TrailingSpaces(before))
    ELSE s

\* str.strip()
Strip(s) ==
    LET t == Drop(s, SpaceRun(s)) IN SubSeq(t, 1, Len(t) - TrailingSpaces(t))

\* cleaned_response of lines 331-334
Cleaned(text) == Strip(RemoveRest(RemoveBlocks(text)))

\* 'rate limit' in cleaned_response.lower() or 'throttl' in cleaned_response.lower()
IsRateLimited(cleaned) ==
    \E i \in 1..Len(cleaned) : Lower(cleaned[i]) \in {"rate limit", "throttl"}

\* what agent(user_input) can return: a str, or a result object whose str() is text
Responses == [kind : {"str", "result"}, text : Texts]
NoResponse == [kind |-> "none", text |-> <<>>]

\* a line on the console
Item(kind, text) == [kind |-> kind, text |-> text]

\* lines 329-343: what is printed for a response
PrintAnswerNoNotice(r) ==
    IF r.kind = "str"
    THEN IF Cleaned(r.text) # <<>> THEN <<Item("agent", Cleaned(r.text))>> ELSE <<>>
    ELSE <<Item("agent", r.text)>>

PrintAnswer(r) ==
    IF r.kind = "str"
    THEN LET cleaned_response == Cleaned(r.text) IN
         IF IsRateLimited(cleaned_response)
         THEN <<Item("rate limit reached", <<>>), Item("wait and try again", <<>>)>>
         ELSE IF cleaned_response # <<>> THEN <<Item("agent", cleaned_response)>>
         ELSE <<>>
    ELSE <<Item("agent", r.text)>>

NoAgent == [constructed |-> FALSE, tools |-> <<>>]

\* ACTOR_ID and SESSION_ID (agent.py 55-56), the state every Agent is given (281)
ACTOR_ID == "resource-optimizer-001"
SESSION_ID == "main-session-resource-optimizer-001"

IdleLoop ==
    /\ user_input = <<>> /\ response = NoResponse
    /\ access_token = None /\ session = "closed" /\ agent = NoAgent

IdleExt ==
    /\ messages = <<>> /\ agent_state = [actor_id |-> ACTOR_ID, session_id |-> SESSION_ID]
    /\ create_events = <<>> /\ propagated = FALSE
    /\ fetched = 0 /\ transports = <<>>
    /\ created_targets = <<>> /\ target_idx = 0

----------------------------------------------------------------------------
(* agent.py create_or_get_memory *)

\* memory_name = "ResourceOptimizerMemory"; ids and names are token sequences
memory_name == <<"ResourceOptimizerMemory">>

\* m['id'].startswith(memory_name)
StartsWith(id, name) == Len(id) >= Len(name) /\ SubSeq(id, 1, Len(name)) = name

\* ids of memories that exist before the program first runs
PreIds == {<<"Other", "-", "z9">>,
           <<"My", "ResourceOptimizerMemory", "-", "x7">>,
           <<"ResourceOptimizerMemory", "V2", "-", "y8">>}

\* the id the service gives the k-th memory created with name=memory_name:
\* the name, a hyphen and a fresh suffix
Suffixes == <<"a1", "b2", "c3", "d4", "e5", "f6">>
NewId(k) == memory_name \o <<"-", Suffixes[k]>>

\* next((m for m in memories if m['id'].startswith(memory_name)), None)
\* None as a memory, as a memory id and as the config's 'memory' entry
NoMemory == [id |-> <<>>]
NoId == <<>>
NoEntry == [id |-> <<>>, name |-> <<>>]

RECURSIVE FirstFrom(_, _)
FirstFrom(list, i) ==
    IF i > Len(list) THEN NoMemory
    ELSE IF StartsWith(list[i].id, memory_name) THEN list[i]
    ELSE FirstFrom(list, i + 1)

ExistingMemoryByEquality(list) ==
    IF \E i \in 1..Len(list) : list[i].id = memory_name
    THEN list[CHOOSE i \in 1..Len(list) : list[i].id = memory_name] ELSE NoMemory

ExistingMemory(list) == FirstFrom(list, 1)

\* how the external calls of one create_or_get_memory call turn out
MemoryOutcomes == {"ok", "list_raises", "create_raises", "wait_raises", "write_raises"}

NoCall == [listed_ok |-> FALSE, listed |-> <<>>, memory_id |-> NoId, raised |-> FALSE,
           creates |-> 0, writes |-> 0, calls |-> <<>>]

\* create_or_get_memory, whole: what it returns or raises, the calls it makes and
\* what it leaves on the service, in config and in config.json.  o says which
\* external call raises, if it is reached.
CreateOrGetMemory(o) ==
    LET existing_memory == ExistingMemory(memories)
        newid == NewId(Len(created) + 1)
        Listed == [NoCall EXCEPT !.listed_ok = TRUE, !.listed = memories]
    IN
    IF o = "list_raises" THEN
        /\ mcall' = [NoCall EXCEPT !.raised = TRUE, !.calls = <<"list_memories">>]
        /\ UNCHANGED <<memories, config, config_json, created>>
    ELSE IF existing_memory # NoMemory THEN
        /\ mcall' = [Listed EXCEPT !.memory_id = existing_memory.id,
                                   !.calls = <<"list_memories">>]
        /\ UNCHANGED <<memories, config, config_json, created>>
    ELSE IF o = "create_raises" THEN
        \* create_memory_and_wait raises before the service has created anything
        /\ mcall' = [Listed EXCEPT !.raised = TRUE, !.creates = 1,
                                   !.calls = <<"list_memories", "create_memory_and_wait">>]
        /\ UNCHANGED <<memories, config, config_json, created>>
    ELSE IF o = "wait_raises" THEN
        \* the memory is created, and waiting for it to become active raises
        /\ mcall' = [Listed EXCEPT !.raised = TRUE, !.creates = 1,
                                   !.calls = <<"list_memories", "create_memory_and_wait">>]
        /\ memories' = Append(memories, [id |-> newid])
        /\ created' = Append(created, newid)
        /\ UNCHANGED <<config, config_json>>
    ELSE
        /\ memories' = Append(memories, [id |-> newid])
        /\ created' = Append(created, newid)
        /\ config' = [config EXCEPT !.memory = [id |-> newid, name |-> memory_name]]
        /\ IF o = "write_raises"
           THEN /\ UNCHANGED config_json
                /\ mcall' = [Listed EXCEPT !.raised = TRUE,
                                           !.creates = 1, !.writes = 1,
                        !.calls = <<"list_memories", "create_memory_and_wait", "write_config">>]
           ELSE /\ config_json' = [id |-> newid, name |-> memory_name]
                /\ mcall' = [Listed EXCEPT !.memory_id = newid,
                                           !.creates = 1, !.writes = 1,
                        !.calls = <<"list_memories", "create_memory_and_wait", "write_config">>]

IdleMemory ==
    /\ memories = <<>> /\ config = [memory |-> NoEntry] /\ config_json = NoEntry
    /\ mcall = NoCall /\ created = <<>>

InitMemory ==
    /\ prog = "create_or_get_memory" /\ pc = "call" /\ trace = <<>> /\ printed = <<>>
    /\ served = <<>> /\ fl = FlInit /\ gl = GlInit /\ all_tools = <<>> /\ tools = <<>>
    /\ memories \in SeqsUpTo({[id |-> i] : i \in PreIds}, MaxListed)
    /\ config = [memory |-> NoEntry] /\ config_json = NoEntry
    /\ mcall = NoCall /\ created = <<>>
    /\ IdleLoop
    /\ IdleExt

\* one call of create_or_get_memory; the listing of the next call reflects it
CallCreateOrGetMemory ==
    /\ prog = "create_or_get_memory" /\ Len(trace) < MaxMemoryCalls
    /\ \E o \in MemoryOutcomes : CreateOrGetMemory(o)
    /\ trace' = Append(trace, Ev("create_or_get_memory"))
    /\ UNCHANGED <<prog, pc, printed, toolVars, loopVars, sessVars, extVars>>

NextMemory == CallCreateOrGetMemory

SpecMemory == InitMemory /\ [][NextMemory]_vars

\* C10: a call that lists a memory whose id starts with the name returns the
\* first such id, creates nothing and does not write config.json; a call that
\* lists none and returns has created exactly one memory and written its id
\* under config['memory']; over any sequence of calls whose listings reflect
\* the earlier creations, at most one memory is created.
C10_CreateOrGetMemory ==
    LET hits == {i \in 1..Len(mcall.listed) : StartsWith(mcall.listed[i].id, memory_name)}
        listed == mcall.listed_ok
    IN
    /\ (listed /\ hits # {}) =>
          /\ ~mcall.raised /\ mcall.creates = 0 /\ mcall.writes = 0
          /\ \E i \in hits : /\ mcall.memory_id = mcall.listed[i].id
                              /\ \A j \in hits : i <= j
    /\ (listed /\ hits = {} /\ ~mcall.raised) =>
          /\ mcall.creates = 1 /\ mcall.writes = 1
          /\ mcall.memory_id # NoId
          /\ config.memory.id = mcall.memory_id
          /\ config_json.id = mcall.memory_id
          /\ created # <<>> /\ created[Len(created)] = mcall.memory_id
          /\ \E i \in 1..Len(memories) : memories[i].id = mcall.memory_id
    /\ Len(created) <= 1

\* a first call created the memory and two later calls then found it
C10_Witness ==
    /\ Len(trace) = 3 /\ Len(created) = 1
    /\ ~mcall.raised /\ mcall.creates = 0 /\ mcall.memory_id = created[1]
    /\ config_json.id = created[1]

----------------------------------------------------------------------------
(* The two pagination loops, run against the same served pages *)

InitTools ==
    /\ prog = "tools" /\ pc = "loops" /\ trace = <<>> /\ printed = <<>>
    /\ served \in ServedSeqs
    /\ fl = FlInit /\ gl = GlInit
    /\ all_tools = <<>> /\ tools = <<>>
    /\ IdleMemory
    /\ IdleLoop
    /\ IdleExt

\* one iteration of get_full_tools_list; on the last one the function returns and
\* its caller filters the list (agent.py 205-208)
GetFullToolsListIter ==
    /\ prog = "tools" /\ fl.more_tools /\ Len(fl.calls) < Len(served)
    /\ fl' = FlIter(fl, served[Len(fl.calls) + 1])
    /\ IF fl'.more_tools
       THEN UNCHANGED <<all_tools, tools>>
       ELSE /\ all_tools' = fl'.tools
            /\ tools' = FilterTools(fl'.tools)
    /\ UNCHANGED <<commonVars, served, gl, memVars, loopVars, sessVars, extVars>>

\* one iteration of the loop of get_tools; on the break the function filters the
\* list and returns (runtime_agent.py 46-55)
GetToolsIter ==
    /\ prog = "tools" /\ gl.looping /\ Len(gl.calls) < Len(served)
    /\ LET l == GlIter(gl, served[Len(gl.calls) + 1]) IN
       gl' = IF l.looping THEN l
             ELSE [l EXCEPT !.tools = GetToolsFilter(l.all_tools), !.returned = TRUE]
    /\ UNCHANGED <<commonVars, served, fl, all_tools, tools, memVars, loopVars, sessVars, extVars>>

NextTools == GetFullToolsListIter \/ GetToolsIter

SpecTools == InitTools /\ [][NextTools]_vars

\* the tools of the first n served pages, in fetch order
RECURSIVE ConcatPages(_, _)
ConcatPages(srv, n) == IF n = 0 THEN <<>> ELSE ConcatPages(srv, n - 1) \o srv[n].tools

\* calls is the token sequence of a loop that follows srv's continuation tokens
FollowsTokens(calls, srv) ==
    /\ Len(calls) <= Len(srv)
    /\ \A k \in 1..Len(calls) :
          /\ calls[k] = IF k = 1 THEN None ELSE srv[k - 1].pagination_token
          /\ k < Len(calls) => srv[k].pagination_token # None

\* C2: both pagination loops call list_tools_sync first with None and then with
\* the token of the page just fetched, stop at the first page whose token is
\* None (and only there), hold the concatenation of the fetched pages in fetch
\* order, and agree with each other on every served page sequence.
C2_PaginationFollowsToken ==
    /\ FollowsTokens(fl.calls, served)
    /\ FollowsTokens(gl.calls, served)
    /\ fl.tools = ConcatPages(served, Len(fl.calls))
    /\ gl.all_tools = ConcatPages(served, Len(gl.calls))
    /\ fl.more_tools <=> ~ \E k \in 1..Len(fl.calls) : served[k].pagination_token = None
    /\ gl.looping <=> ~ \E k \in 1..Len(gl.calls) : served[k].pagination_token = None
    /\ (~fl.more_tools /\ ~gl.looping) => (fl.tools = gl.all_tools /\ fl.calls = gl.calls)
    /\ (~fl.more_tools) => all_tools = fl.tools

\* both loops have ended after two pages that carried tools
C2_Witness ==
    /\ ~fl.more_tools /\ gl.returned
    /\ Len(fl.calls) = 2 /\ fl.calls[2] # None
    /\ served[1].tools # <<>> /\ served[2].tools # <<>>
    /\ served[1].tools # served[2].tools

\* the indices of the tools of list whose name has at most 64 characters
ShortIdx(list) == {j \in 1..Len(list) : Len(list[j].tool_name) <= 64}

\* kept holds exactly the tools of list at ShortIdx(list), in the order of list
KeepsShortInOrder(kept, list) ==
    /\ Len(kept) = Cardinality(ShortIdx(list))
    /\ \A j \in ShortIdx(list) :
          kept[Cardinality({i \in ShortIdx(list) : i <= j})] = list[j]

\* C8: the filtered tool list of agent.py and of runtime_agent.py holds exactly
\* the enumerated tools whose name has at most 64 characters, in enumeration order.
C8_ToolsFilteredByNameLength ==
    /\ (~fl.more_tools) => KeepsShortInOrder(tools, all_tools)
    /\ gl.returned => KeepsShortInOrder(gl.tools, gl.all_tools)

\* a 64-character name is kept after a 65-character one was dropped, in both programs
C8_Witness ==
    /\ ~fl.more_tools /\ gl.returned
    /\ Len(all_tools) = 2
    /\ Len(all_tools[1].tool_name) = 65 /\ Len(all_tools[2].tool_name) = 64
    /\ tools = <<all_tools[2]>> /\ gl.tools = tools

----------------------------------------------------------------------------
(* agent.py: main and create_resource_optimizer_agent *)

Page(ts, tok) == [tools |-> ts, pagination_token |-> tok]
Tool(n) == [tool_name |-> n]

\* the gateways main is run against: one page; two pages; a token with no page
\* behind it (the next list_tools_sync raises); no answer at all
AgentServed ==
    {<<Page(<<Tool(Name64)>>, None)>>,
     <<Page(<<Tool(Name65)>>, "t1"), Page(<<Tool(Name63)>>, None)>>,
     <<Page(<<Tool(Name64)>>, "t2")>>,
     <<>>}

\* the lines input() returns, as token sequences
InputLines == {<<"exit">>, <<"EXIT">>, <<" ", "exit">>, <<>>, <<" ">>, <<"hi">>}

\* user_input.lower()
LowerLine(l) == [i \in 1..Len(l) |-> IF l[i] = "EXIT" THEN "exit" ELSE l[i]]

\* the answers and the exception messages the agent call is run with
SampleResponses ==
    {[kind |-> "str", text |-> <<"x">>],
     [kind |-> "str", text |-> <<"<thinking>", "x", "</thinking>", " ">>],
     [kind |-> "str", text |-> <<"x", "rate limit">>],
     [kind |-> "result", text |-> <<"<thinking>", "x", "</thinking>", "x">>]}
ExceptionMessages == {<<"x">>, <<"rate limit">>}

InitAgent ==
    /\ prog = "agent.py" /\ pc = "start" /\ trace = <<>> /\ printed = <<>>
    /\ served \in AgentServed
    /\ fl = FlInit /\ gl = GlInit /\ all_tools = <<>> /\ tools = <<>>
    /\ memories \in {<<>>, <<[id |-> <<"ResourceOptimizerMemory", "V2", "-", "y8">>]>>}
    /\ config = [memory |-> NoEntry] /\ config_json = NoEntry
    /\ mcall = NoCall /\ created = <<>>
    /\ IdleLoop
    /\ IdleExt

\* the events of leaving a `with mcp_client:` block: the session is closed
CloseEvents == IF session = "open" THEN <<Ev("close")>> ELSE <<>>

\* main 357-358: an exception of create_resource_optimizer_agent, or of entering
\* the with block of main, leaves every open with block and ends main
StartupFailsGoesOn(events) ==
    /\ pc' = "loop"
    /\ trace' = trace \o events \o <<Ev("fail")>>
    /\ printed' = <<Item("Failed to initialize agent", <<>>)>>
    /\ session' = "open"

StartupFails(events) ==
    /\ pc' = "failed"
    /\ trace' = trace \o events \o CloseEvents \o <<Ev("fail")>>
    /\ printed' = <<Item("Failed to initialize agent", <<>>)>>
    /\ session' = "closed"

\* 196: access_token = fetch_access_token(...)
FetchAccessToken ==
    /\ prog = "agent.py" /\ pc = "start"
    /\ \/ /\ access_token' = "token"
          /\ pc' = "connect"
          /\ trace' = Append(trace, Ev("fetch_access_token"))
          /\ UNCHANGED <<printed, session>>
       \/ /\ StartupFails(<<Raised("fetch_access_token")>>)
          /\ UNCHANGED access_token
    /\ UNCHANGED <<prog, toolVars, memVars, loopVars, agent, extVars>>

\* 201-203: with mcp_client: the transport is built with access_token
EnterMcpClient ==
    /\ prog = "agent.py" /\ pc = "connect"
    /\ \/ /\ session' = "open"
          /\ pc' = "list"
          /\ trace' = Append(trace, Ev("open"))
          /\ UNCHANGED printed
       \/ StartupFails(<<Raised("open")>>)
    /\ UNCHANGED <<prog, toolVars, memVars, loopVars, access_token, agent, extVars>>

ListCalls(n) == [i \in 1..n |-> "list_tools_sync"]

\* 205-210: all_tools = get_full_tools_list(mcp_client) and the filter
ListTools ==
    /\ prog = "agent.py" /\ pc = "list"
    /\ LET l == FlRun(FlInit, served) IN
       /\ fl' = l
       /\ IF ~l.more_tools
          THEN /\ all_tools' = l.tools
               /\ tools' = FilterTools(l.tools)
               /\ pc' = "memory"
               /\ trace' = trace \o CallsOf(ListCalls(Len(l.calls)), FALSE)
                                 \o <<Ev("tools_listed")>>
               /\ UNCHANGED <<printed, session>>
          ELSE /\ StartupFails(CallsOf(ListCalls(Len(l.calls) + 1), TRUE))
               /\ UNCHANGED <<all_tools, tools>>
    /\ UNCHANGED <<prog, served, gl, memVars, loopVars, access_token, agent, extVars>>

\* 214: memory_client, memory_id = create_or_get_memory()
SetupMemory ==
    /\ prog = "agent.py" /\ pc = "memory"
    /\ \E o \in MemoryOutcomes : CreateOrGetMemory(o)
    /\ IF mcall'.raised
       THEN StartupFails(CallsOf(mcall'.calls, TRUE))
       ELSE /\ pc' = "agent"
            /\ trace' = trace \o CallsOf(mcall'.calls, FALSE)
            /\ UNCHANGED <<printed, session>>
    /\ UNCHANGED <<prog, toolVars, loopVars, access_token, agent, extVars>>

\* 218-285: BedrockModel(...), Agent(..., tools=tools, ...) and the return, which
\* leaves the with block
ConstructAgent ==
    /\ prog = "agent.py" /\ pc = "agent"
    /\ \/ /\ agent' = [constructed |-> TRUE, tools |-> tools]
          /\ pc' = "welcome"
          /\ trace' = trace \o <<Ev("Agent")>> \o CloseEvents
          /\ session' = "closed"
          /\ UNCHANGED printed
       \/ /\ StartupFails(<<Raised("Agent")>>)
          /\ UNCHANGED agent
    /\ UNCHANGED <<prog, toolVars, memVars, loopVars, access_token, extVars>>

\* 293-313: the banner, then with mcp_client: in main
EnterLoop ==
    /\ prog = "agent.py" /\ pc = "welcome"
    /\ \/ /\ session' = "open"
          /\ pc' = "loop"
          /\ trace' = Append(trace, Ev("open"))
          /\ printed' = <<Item("Welcome", <<>>)>>
       \/ StartupFails(<<Raised("open")>>)
    /\ UNCHANGED <<prog, toolVars, memVars, loopVars, access_token, agent, extVars>>

Count(seq, e) == Cardinality({i \in 1..Len(seq) : seq[i].call = e})

\* a break of the while loop: main leaves its with block and returns
BreakKeepsSession(events, msg) ==
    /\ pc' = "done"
    /\ trace' = trace \o events
    /\ printed' = <<Item(msg, <<>>)>>
    /\ session' = session

Break(events, msg) ==
    /\ pc' = "done"
    /\ trace' = trace \o events \o CloseEvents
    /\ printed' = <<Item(msg, <<>>)>>
    /\ session' = "closed"

\* 351-355: what the handler of Exception prints for an exception with message msg
PrintError(msg) ==
    <<Item("Error", msg)>>
    \o (IF IsRateLimited(msg) THEN <<Item("Try again in a few minutes", <<>>)>> ELSE <<>>)
    \o <<Item("Please try a different question", <<>>)>>

\* 317-323, 345-355: input(), the exit and blank tests, and the exceptions
\* input() can raise: KeyboardInterrupt, EOFError, or any other Exception
ReadInputNoStrip ==
    /\ prog = "agent.py" /\ pc = "loop" /\ Count(trace, "input") < MaxInputs
    /\ \/ \E line \in InputLines :
            /\ user_input' = line
            /\ IF LowerLine(line) = <<"exit">>
               THEN Break(<<Ev("input")>>, "Goodbye")
               ELSE /\ trace' = Append(trace, Ev("input"))
                    /\ printed' = <<>>
                    /\ pc' = IF line = <<>> THEN "loop" ELSE "call"
                    /\ UNCHANGED session
       \/ /\ Break(<<Ev("input")>>, "Exiting")
          /\ UNCHANGED user_input
       \/ /\ Break(<<Ev("input")>>, "Input stream ended")
          /\ UNCHANGED user_input
       \/ \E msg \in ExceptionMessages :
            /\ printed' = PrintError(msg)
            /\ pc' = "loop"
            /\ trace' = Append(trace, Raised("input"))
            /\ UNCHANGED <<user_input, session>>
    /\ UNCHANGED <<prog, toolVars, memVars, response, access_token, agent, extVars>>

ReadInput ==
    /\ prog = "agent.py" /\ pc = "loop" /\ Count(trace, "input") < MaxInputs
    /\ \/ \E line \in InputLines :
            /\ user_input' = line
            /\ IF LowerLine(line) = <<"exit">>
               THEN Break(<<Ev("input")>>, "Goodbye")
               ELSE /\ trace' = Append(trace, Ev("input"))
                    /\ printed' = <<>>
                    /\ pc' = IF Strip(line) = <<>> THEN "loop" ELSE "call"
                    /\ UNCHANGED session
       \/ /\ Break(<<Ev("input")>>, "Exiting")
          /\ UNCHANGED user_input
       \/ /\ Break(<<Ev("input")>>, "Input stream ended")
          /\ UNCHANGED user_input
       \/ \E msg \in ExceptionMessages :
            /\ printed' = PrintError(msg)
            /\ pc' = "loop"
            /\ trace' = Append(trace, Raised("input"))
            /\ UNCHANGED <<user_input, session>>
    /\ UNCHANGED <<prog, toolVars, memVars, response, access_token, agent, extVars>>

\* 326-343: response = agent(user_input) returns r, and the answer is printed
AgentReturns(r) ==
    /\ response' = r
    /\ printed' = PrintAnswer(r)
    /\ pc' = "loop"
    /\ trace' = Append(trace, Ev("agent_call"))
    /\ UNCHANGED session

\* 351-355: agent(user_input) raises an Exception with message msg
AgentRaisesBreaks(msg) ==
    /\ printed' = PrintError(msg)
    /\ pc' = "done"
    /\ trace' = trace \o <<Raised("agent_call")>> \o CloseEvents
    /\ session' = "closed"
    /\ UNCHANGED response

AgentRaises(msg) ==
    /\ printed' = PrintError(msg)
    /\ pc' = "loop"
    /\ trace' = Append(trace, Raised("agent_call"))
    /\ UNCHANGED <<response, session>>

\* 326-355: the agent call on a line that is neither exit nor blank, the agent
\* answering from the set answers
AgentCallWith(answers) ==
    /\ prog = "agent.py" /\ pc = "call"
    /\ \/ \E r \in answers : AgentReturns(r)
       \/ \E msg \in ExceptionMessages : AgentRaises(msg)
       \/ /\ Break(<<Ev("agent_call_interrupted")>>, "Exiting")
          /\ UNCHANGED response
    /\ UNCHANGED <<prog, toolVars, memVars, user_input, access_token, agent, extVars>>

AgentCall == AgentCallWith(SampleResponses)

NextAgent ==
    \/ FetchAccessToken \/ EnterMcpClient \/ ListTools \/ SetupMemory
    \/ ConstructAgent \/ EnterLoop \/ ReadInput \/ AgentCall

SpecAgent == InitAgent /\ [][NextAgent]_vars

\* where trace holds call e, and where it holds a call e that returned
Idx(e) == {i \in 1..Len(trace) : trace[i].call = e}
IdxOk(e) == {i \in Idx(e) : trace[i].ok}
Precedes(a, b) == \A i \in Idx(b) : \E j \in IdxOk(a) : j < i

\* C1: the token is fetched before the transport is opened, the tools are fully
\* enumerated before the Agent is constructed, the Agent is constructed before
\* input is read, and a failing startup step is the last step: nothing follows
\* it and no input is read.
C1_StartupOrder ==
    /\ Precedes("fetch_access_token", "open")
    /\ Precedes("open", "list_tools_sync")
    /\ Precedes("tools_listed", "Agent")
    /\ Precedes("Agent", "input")
    /\ Idx("tools_listed") # {} =>
          /\ ~fl.more_tools
          /\ served[Len(fl.calls)].pagination_token = None
          /\ all_tools = ConcatPages(served, Len(fl.calls))
          /\ Count(trace, "list_tools_sync") = Len(fl.calls)
    /\ agent.constructed <=> IdxOk("Agent") # {}
    /\ Idx("fail") # {} =>
          /\ pc = "failed"
          /\ trace[Len(trace)] = Ev("fail")
          /\ Idx("input") = {}
          /\ session = "closed"
    /\ pc = "failed" => Idx("fail") # {}

\* input has been read after a two-page enumeration
C1_Witness ==
    /\ Idx("input") # {} /\ Len(fl.calls) = 2 /\ agent.constructed /\ access_token = "token"

\* the startup failed while listing the tools, with the session open
C1_WitnessFailure ==
    /\ pc = "failed" /\ Idx("list_tools_sync") # IdxOk("list_tools_sync")
    /\ Idx("close") # {}

\* C9: whenever the agent is about to be invoked on user input the MCP session
\* is open; the session is never opened while it is open; when main has
\* returned, the session is closed.
C9_SessionDiscipline ==
    /\ pc = "call" => session = "open"
    /\ \A i \in IdxOk("open") :
          Cardinality({j \in IdxOk("open") : j < i}) = Cardinality({j \in Idx("close") : j < i})
    /\ session = "open" <=> Cardinality(IdxOk("open")) = Count(trace, "close") + 1
    /\ session = "closed" <=> Cardinality(IdxOk("open")) = Count(trace, "close")
    /\ pc \in {"done", "failed"} => session = "closed"

\* main has returned after the agent answered a line: the session was opened
\* twice and closed twice
C9_Witness ==
    /\ pc = "done" /\ IdxOk("agent_call") # {}
    /\ Cardinality(IdxOk("open")) = 2 /\ Count(trace, "close") = 2

----------------------------------------------------------------------------
(* The answer of the agent call, for every text within the bounds *)

\* main is at the agent call of its first line, after a startup that listed two
\* pages of tools and created the memory
InitAnswer ==
    /\ prog = "agent.py" /\ pc = "call"
    /\ served = <<Page(<<Tool(Name65)>>, "t1"), Page(<<Tool(Name63)>>, None)>>
    /\ fl = FlRun(FlInit, served) /\ gl = GlInit
    /\ all_tools = fl.tools /\ tools = FilterTools(all_tools)
    /\ memories = <<[id |-> NewId(1)]>>
    /\ config = [memory |-> [id |-> NewId(1), name |-> memory_name]]
    /\ config_json = [id |-> NewId(1), name |-> memory_name]
    /\ mcall = [NoCall EXCEPT !.listed_ok = TRUE, !.memory_id = NewId(1),
                              !.creates = 1, !.writes = 1,
                   !.calls = <<"list_memories", "create_memory_and_wait", "write_config">>]
    /\ created = <<NewId(1)>>
    /\ user_input \in {<<"hi">>, <<" ", "exit">>}
    /\ response = NoResponse
    /\ access_token = "token" /\ session = "open"
    /\ agent = [constructed |-> TRUE, tools |-> tools]
    /\ IdleExt
    /\ trace = CallsOf(<<"fetch_access_token", "open", "list_tools_sync",
                         "list_tools_sync", "tools_listed", "list_memories",
                         "create_memory_and_wait", "write_config", "Agent", "close",
                         "open", "input">>, FALSE)
    /\ printed = <<>>

AnswerCall == AgentCallWith(Responses)

NextAnswer == AnswerCall

SpecAnswer == InitAnswer /\ [][NextAnswer]_vars

Answered == pc = "loop" /\ trace[Len(trace)] = Ev("agent_call")

AgentLines == {i \in 1..Len(printed) : printed[i].kind = "agent"}

\* C3 as stated: whenever the agent call returns text, that text (as returned,
\* or cleaned of thinking tags) is printed as the agent's answer.
C3_ReturnedTextIsPrinted ==
    (Answered /\ Cleaned(response.text) # <<>>) =>
        \E i \in AgentLines : printed[i].text \in {response.text, Cleaned(response.text)}

\* sub is text with some tokens left out
RECURSIVE IsSubsequence(_, _)
IsSubsequence(sub, text) ==
    IF sub = <<>> THEN TRUE
    ELSE IF text = <<>> THEN FALSE
    ELSE IF Head(sub) = Head(text) THEN IsSubsequence(Tail(sub), Tail(text))
    ELSE IsSubsequence(sub, Tail(text))

\* C3 amended: a non-string result is printed as it is; a string is printed
\* without its thinking blocks and surrounding blanks, unless nothing remains
\* (nothing is printed) or what remains names a rate limit or throttling (a
\* notice is printed instead of the text).
C3_AnswerPrinted ==
    Answered =>
        IF response.kind # "str" THEN printed = <<Item("agent", response.text)>>
        ELSE LET c == Cleaned(response.text) IN
             /\ IsSubsequence(c, response.text)
             /\ (\E i \in 1..Len(c) : c[i] \in {"rate limit", "throttl"}) =>
                    /\ AgentLines = {}
                    /\ printed # <<>> /\ printed[1].kind = "rate limit reached"
             /\ (\A i \in 1..Len(c) : c[i] \notin {"rate limit", "throttl"}) =>
                    printed = IF c = <<>> THEN <<>> ELSE <<Item("agent", c)>>
             /\ \A i \in AgentLines :
                    /\ printed[i].text # <<>>
                    /\ ~IsSpace(Head(printed[i].text))
                    /\ ~IsSpace(printed[i].text[Len(printed[i].text)])

\* a string that names a rate limit outside its thinking block got the notice
C3_Witness ==
    /\ Answered /\ response.kind = "str"
    /\ response.text # <<>> /\ IsOpen(response.text[1])
    /\ IsRateLimited(Cleaned(response.text))
    /\ AgentLines = {} /\ printed # <<>>

\* C4: the text printed as the agent's answer holds no opening thinking tag, in
\* any letter case: neither a block nor an unclosed tag.
C4_NoThinkingPrinted ==
    \A i \in AgentLines : \A j \in 1..Len(printed[i].text) : ~IsOpen(printed[i].text[j])

----------------------------------------------------------------------------
(* agent.py CostMemoryHookProvider.on_message_added *)

\* content blocks: a text block, and a block of another kind
TextBlock(t) == [key |-> "text", value |-> t]
ToolUseBlock == [key |-> "toolUse", value |-> <<>>]

\* the contents a message is added with
Contents ==
    {<<>>,
     <<TextBlock(<<"hello">>)>>,
     <<TextBlock(<<>>)>>,
     <<ToolUseBlock>>,
     <<ToolUseBlock, TextBlock(<<"hello">>)>>,
     <<TextBlock(<<"hi">>), ToolUseBlock>>}

Messages == [role : {"user", "assistant"}, content : Contents]

\* agent.state as agent.py 281 sets it, and an agent state without the two ids
AgentStates ==
    {[actor_id |-> ACTOR_ID, session_id |-> SESSION_ID],
     [actor_id |-> None, session_id |-> None]}

\* block.get("text"): the value, or None for a block without the key
GetText(block) ==
    IF block.key = "text" THEN [present |-> TRUE, value |-> block.value]
    ELSE [present |-> FALSE, value |-> <<>>]

\* the truth value Python gives it: None and the empty string are false
Truthy(v) == v.present /\ v.value # <<>>

OldestMessage(msgs) == msgs[1]

\* messages[-1]
NewestMessage(msgs) == msgs[Len(msgs)]

\* self.memory_id of the hook provider (agent.py 280)
HookMemoryId == NewId(1)

\* on_message_added, whole, on the messages msgs of the agent: the create_event
\* calls it makes and whether an exception leaves it.  client_raises says
\* whether create_event raises when called.
OnMessageAdded(msgs, client_raises) ==
    LET m == NewestMessage(msgs) IN
    IF m.content = <<>>
    THEN \* messages[-1]["content"][0] raises IndexError, caught at 143
         [calls |-> <<>>, propagated |-> FALSE]
    ELSE IF Truthy(GetText(m.content[1]))
    THEN [calls |-> <<[memory_id |-> HookMemoryId,
                       actor_id |-> agent_state.actor_id,
                       session_id |-> agent_state.session_id,
                       messages |-> <<<<m.content[1].value, m.role>>>>,
                       ok |-> ~client_raises]>>,
          propagated |-> FALSE]
    ELSE [calls |-> <<>>, propagated |-> FALSE]

InitHook ==
    /\ prog = "hook" /\ pc = "registered" /\ trace = <<>> /\ printed = <<>>
    /\ served = <<>> /\ fl = FlInit /\ gl = GlInit /\ all_tools = <<>> /\ tools = <<>>
    /\ IdleMemory
    /\ IdleLoop
    /\ messages = <<>> /\ agent_state \in AgentStates
    /\ create_events = <<>> /\ propagated = FALSE
    /\ fetched = 0 /\ transports = <<>>
    /\ created_targets = <<>> /\ target_idx = 0

\* register_hooks 148: a MessageAddedEvent runs on_message_added once, after the
\* message was appended to agent.messages
MessageAdded ==
    /\ prog = "hook" /\ Len(messages) < MaxMessages /\ ~propagated
    /\ \E m \in Messages, client_raises \in BOOLEAN :
          /\ messages' = Append(messages, m)
          /\ LET r == OnMessageAdded(messages', client_raises) IN
             /\ create_events' = create_events \o r.calls
             /\ propagated' = r.propagated
    /\ UNCHANGED <<commonVars, toolVars, memVars, loopVars, sessVars, agent_state,
                   fetched, transports, created_targets, target_idx>>

NextHook == MessageAdded

SpecHook == InitHook /\ [][NextHook]_vars

\* the messages whose first content block holds a non-empty text
TextIdx ==
    {k \in 1..Len(messages) :
        /\ messages[k].content # <<>>
        /\ messages[k].content[1].key = "text"
        /\ messages[k].content[1].value # <<>>}

\* C6: every added message whose first content block holds a non-empty text
\* has caused exactly one create_event call, carrying that text with the
\* message's role and the agent's actor_id and session_id; the other messages
\* have caused none; and no exception has left the callback, whether or not
\* the memory client raised.
C6_MessageForwarded ==
    /\ Len(create_events) = Cardinality(TextIdx)
    /\ \A k \in TextIdx :
          LET e == create_events[Cardinality({i \in TextIdx : i <= k})] IN
          /\ e.messages = <<<<messages[k].content[1].value, messages[k].role>>>>
          /\ e.actor_id = agent_state.actor_id
          /\ e.session_id = agent_state.session_id
          /\ e.memory_id = HookMemoryId
    /\ ~propagated

\* three messages were added: one without text, one whose create_event raised,
\* and one that was stored
C6_Witness ==
    /\ Len(messages) = 3 /\ Len(create_events) = 2
    /\ messages[1].content # <<>> /\ messages[1].content[1].key = "toolUse"
    /\ ~create_events[1].ok /\ create_events[2].ok
    /\ create_events[1].messages # create_events[2].messages
    /\ agent_state.actor_id = ACTOR_ID

----------------------------------------------------------------------------
(* runtime_agent.py *)

\* the loop of get_tools run to its end against the pages srv; it stops early,
\* still looping, when the gateway has no further page
RECURSIVE GlRun(_, _)
GlRun(l, srv) ==
    IF ~l.looping \/ Len(l.calls) >= Len(srv) THEN l
    ELSE GlRun(GlIter(l, srv[Len(l.calls) + 1]), srv)

InitRuntime ==
    /\ prog = "runtime_agent.py" /\ pc = "import" /\ trace = <<>> /\ printed = <<>>
    /\ served \in AgentServed
    /\ fl = FlInit /\ gl = GlInit /\ all_tools = <<>> /\ tools = <<>>
    /\ IdleMemory
    /\ IdleLoop
    /\ IdleExt

\* create_transport 37-38: the token the transport is built with, fetched tokens
\* having been obtained so far, the last of them by this call
FirstToken(n) == 1

TransportToken(n) == n

\* MCPClient.start calls create_transport: get_access_token returned, and the
\* transport is built
CreateTransport ==
    /\ fetched' = fetched + 1
    /\ transports' = Append(transports, TransportToken(fetched'))

TransportEvents == <<Ev("get_access_token"), Ev("transport")>>

\* 58, 40-55: tools, mcp_client = get_tools() at import
ImportGetTools ==
    /\ prog = "runtime_agent.py" /\ pc = "import"
    /\ \/ \* get_access_token raises: the import fails
          /\ pc' = "import_failed"
          /\ trace' = Append(trace, Raised("get_access_token"))
          /\ UNCHANGED <<gl, fetched, transports>>
       \/ \* the session cannot be opened
          /\ CreateTransport
          /\ pc' = "import_failed"
          /\ trace' = trace \o TransportEvents \o <<Raised("open")>>
          /\ UNCHANGED gl
       \/ /\ CreateTransport
          /\ LET l == GlRun(GlInit, served) IN
             IF ~l.looping
             THEN /\ gl' = [l EXCEPT !.tools = GetToolsFilter(l.all_tools),
                                     !.returned = TRUE]
                  /\ pc' = "agent"
                  /\ trace' = trace \o TransportEvents \o <<Ev("open")>>
                                \o CallsOf(ListCalls(Len(l.calls)), FALSE)
                                \o <<Ev("close")>>
             ELSE /\ gl' = l
                  /\ pc' = "import_failed"
                  /\ trace' = trace \o TransportEvents \o <<Ev("open")>>
                                \o CallsOf(ListCalls(Len(l.calls) + 1), TRUE)
                                \o <<Ev("close")>>
    /\ UNCHANGED <<prog, printed, served, fl, all_tools, tools, memVars, loopVars,
                   sessVars, hookVars, created_targets, target_idx>>

\* 60-86: model = BedrockModel(...), agent = Agent(..., tools=tools)
ConstructRuntimeAgent ==
    /\ prog = "runtime_agent.py" /\ pc = "agent"
    /\ \/ /\ agent' = [constructed |-> TRUE, tools |-> gl.tools]
          /\ pc' = "serving"
          /\ trace' = Append(trace, Ev("Agent"))
       \/ /\ pc' = "import_failed"
          /\ trace' = Append(trace, Raised("Agent"))
          /\ UNCHANGED agent
    /\ UNCHANGED <<prog, printed, toolVars, memVars, loopVars, access_token, session,
                   extVars>>

\* 88-99: invoke(payload): with mcp_client: result = agent(user_message)
Invoke ==
    /\ prog = "runtime_agent.py" /\ pc = "serving"
    /\ Count(trace, "invoke") < MaxInvocations
    /\ \/ /\ trace' = trace \o <<Ev("invoke"), Raised("get_access_token")>>
          /\ UNCHANGED <<fetched, transports>>
       \/ /\ CreateTransport
          /\ trace' = trace \o <<Ev("invoke")>> \o TransportEvents \o <<Raised("open")>>
       \/ /\ CreateTransport
          /\ \E called \in {Ev("agent_call"), Raised("agent_call")} :
                trace' = trace \o <<Ev("invoke")>> \o TransportEvents
                               \o <<Ev("open"), called, Ev("close")>>
    /\ UNCHANGED <<prog, pc, printed, toolVars, memVars, loopVars, sessVars, hookVars,
                   created_targets, target_idx>>

NextRuntime == ImportGetTools \/ ConstructRuntimeAgent \/ Invoke

SpecRuntime == InitRuntime /\ [][NextRuntime]_vars

\* the number of tokens fetched before position i of trace
FetchedBefore(i) == Cardinality({j \in IdxOk("get_access_token") : j < i})

\* C7: every transport is built right after a token fetch of its own, with the
\* token of that fetch: once for the tool loading at import and once for each
\* invoke that opens the MCP client; no two transports share a token.
C7_TokenPerTransport ==
    /\ Len(transports) = Cardinality(Idx("transport"))
    /\ \A i \in Idx("transport") :
          /\ i > 1 /\ trace[i - 1] = Ev("get_access_token")
          /\ transports[Cardinality({j \in Idx("transport") : j <= i})] = FetchedBefore(i)
    /\ \A i, j \in 1..Len(transports) : i # j => transports[i] # transports[j]
    /\ \A i \in IdxOk("open") : i > 1 /\ trace[i - 1] = Ev("transport")
    /\ fetched = Cardinality(IdxOk("get_access_token"))

\* the import and two invocations have each built a transport, after an
\* invocation whose token fetch failed
C7_Witness ==
    /\ Len(transports) = 3 /\ Count(trace, "invoke") = 3
    /\ Idx("get_access_token") # IdxOk("get_access_token")
    /\ IdxOk("agent_call") # {}

----------------------------------------------------------------------------
(* The provisioning scripts src/setup/01, 02 and 03.  printed accumulates. *)

IAM == "01-create-iam-role.py"
GATEWAY == "02-create-gateway.py"
TARGETS == "03-create-smithy-targets.py"

Say(kinds) == printed \o [i \in 1..Len(kinds) |-> Item(kinds[i], <<>>)]

\* an uncaught exception: the interpreter prints the traceback and the script ends
Crash(call) ==
    /\ pc' = "crashed"
    /\ trace' = Append(trace, Raised(call))
    /\ printed' = Say(<<"Traceback">>)

\* except Exception: print the error, sys.exit(1)
ExitWithError(call, msg) ==
    /\ pc' = "exited"
    /\ trace' = Append(trace, Raised(call))
    /\ printed' = Say(<<msg>>)

Returned(call, to, kinds) ==
    /\ pc' = to
    /\ trace' = Append(trace, Ev(call))
    /\ printed' = Say(kinds)

setupRest == <<prog, toolVars, memVars, loopVars, sessVars, hookVars, fetched, transports>>

\* 01, 109-119 and 158-160, 176-178: iam_client.create_role
CreateRole ==
    /\ prog = IAM /\ pc = "create_role"
    /\ \/ Returned("create_role", "put_role_policy", <<"Role created">>)
       \/ \* EntityAlreadyExistsException
          /\ pc' = "exists_sts"
          /\ trace' = Append(trace, Raised("create_role"))
          /\ printed' = Say(<<"Role already exists">>)
       \/ ExitWithError("create_role", "Error creating role")
    /\ UNCHANGED <<setupRest, created_targets, target_idx>>

\* 01, 121-128: iam_client.put_role_policy
PutRolePolicy ==
    /\ prog = IAM /\ pc = "put_role_policy"
    /\ \/ Returned("put_role_policy", "sts", <<"Permissions attached">>)
       \/ ExitWithError("put_role_policy", "Error creating role")
    /\ UNCHANGED <<setupRest, created_targets, target_idx>>

\* 01, 130-156 and 185-193: get_caller_identity, config.json written, the summary
GetCallerIdentity ==
    /\ prog = IAM /\ pc = "sts"
    /\ \/ /\ pc' = "done"
          /\ trace' = trace \o <<Ev("get_caller_identity"), Ev("write_config")>>
          /\ printed' = Say(<<"Config updated", "IAM ROLE SETUP COMPLETE">>)
       \/ /\ pc' = "exited"
          /\ trace' = trace \o <<Ev("get_caller_identity"), Raised("write_config")>>
          /\ printed' = Say(<<"Error creating role">>)
       \/ ExitWithError("get_caller_identity", "Error creating role")
    /\ UNCHANGED <<setupRest, created_targets, target_idx>>

\* 01, 160: get_caller_identity inside the handler of EntityAlreadyExistsException
ExistsGetCallerIdentity ==
    /\ prog = IAM /\ pc = "exists_sts"
    /\ \/ Returned("get_caller_identity", "exists_put", <<"Updating permissions policy">>)
       \/ Crash("get_caller_identity")
    /\ UNCHANGED <<setupRest, created_targets, target_idx>>

\* 01, 162-174 and 185-193: put_role_policy inside that handler, the summary
ExistsPutRolePolicy ==
    /\ prog = IAM /\ pc = "exists_put"
    /\ \/ Returned("put_role_policy", "done",
                   <<"Permissions updated", "IAM ROLE SETUP COMPLETE">>)
       \/ Crash("put_role_policy")
    /\ UNCHANGED <<setupRest, created_targets, target_idx>>

\* 02, 13-30 and 03, 14-26: config.json is read
LoadConfig ==
    /\ prog \in {GATEWAY, TARGETS} /\ pc = "load_config"
    /\ \/ Returned("read_config", IF prog = GATEWAY THEN "create_gateway" ELSE "targets",
                   <<"Creating">>)
       \/ ExitWithError("read_config", "config.json not found")
    /\ UNCHANGED <<setupRest, created_targets, target_idx>>

\* 02, 52-95 and 102-114: create_gateway, config.json written, the summary
CreateGateway ==
    /\ prog = GATEWAY /\ pc = "create_gateway"
    /\ \/ /\ pc' = "done"
          /\ trace' = trace \o <<Ev("create_gateway"), Ev("write_config")>>
          /\ printed' = Say(<<"Gateway created", "Configuration updated",
                              "GATEWAY SETUP COMPLETE">>)
       \/ /\ pc' = "exited"
          /\ trace' = trace \o <<Ev("create_gateway"), Raised("write_config")>>
          /\ printed' = Say(<<"Gateway created", "Error creating Gateway">>)
       \/ ExitWithError("create_gateway", "Error creating Gateway")
    /\ UNCHANGED <<setupRest, created_targets, target_idx>>

\* 03, 36-55: targets_to_create
targets_to_create == <<"CloudWatchTarget", "CloudWatchLogsTarget", "EBSTarget">>

\* where the for loop of 03 stands after it has handled n targets
AfterTarget(n) == IF n = Len(targets_to_create) THEN "finish" ELSE "targets"

\* 03, 99-101: except Exception: print the error, continue
TargetFailsExits ==
    /\ pc' = "exited"
    /\ trace' = Append(trace, Raised("create_gateway_target"))
    /\ printed' = Say(<<"Error">>)
    /\ target_idx' = target_idx + 1
    /\ UNCHANGED created_targets

TargetFails ==
    /\ pc' = AfterTarget(target_idx + 1)
    /\ trace' = Append(trace, Raised("create_gateway_target"))
    /\ printed' = Say(<<"Error">>)
    /\ target_idx' = target_idx + 1
    /\ UNCHANGED created_targets

\* 03, 63-101: one iteration of the for loop
CreateTarget ==
    /\ prog = TARGETS /\ pc = "targets" /\ target_idx < Len(targets_to_create)
    /\ \/ /\ pc' = AfterTarget(target_idx + 1)
          /\ trace' = Append(trace, Ev("create_gateway_target"))
          /\ printed' = Say(<<"Created">>)
          /\ target_idx' = target_idx + 1
          /\ created_targets' = Append(created_targets, targets_to_create[target_idx + 1])
       \/ TargetFails
    /\ UNCHANGED setupRest

\* 03, 103-137: after the loop: config.json written if a target was created, and
\* the summary of the main block
FinishTargets ==
    /\ prog = TARGETS /\ pc = "finish"
    /\ IF created_targets # <<>>
       THEN \/ Returned("write_config", "done",
                        <<"Configuration updated", "SMITHY TARGETS SETUP COMPLETE">>)
            \/ Crash("write_config")
       ELSE /\ pc' = "exited"
            /\ printed' = Say(<<"No targets were created">>)
            /\ UNCHANGED trace
    /\ UNCHANGED <<setupRest, created_targets, target_idx>>

NextSetup ==
    \/ CreateRole \/ PutRolePolicy \/ GetCallerIdentity \/ ExistsGetCallerIdentity
    \/ ExistsPutRolePolicy \/ LoadConfig \/ CreateGateway \/ CreateTarget
    \/ FinishTargets

\* any one of the five programs of the repository is run
InitScripts ==
    /\ prog \in {IAM, GATEWAY, TARGETS, "agent.py", "runtime_agent.py"}
    /\ pc = CASE prog = IAM -> "create_role"
              [] prog \in {GATEWAY, TARGETS} -> "load_config"
              [] prog = "agent.py" -> "start"
              [] OTHER -> "import"
    /\ trace = <<>> /\ printed = <<>>
    /\ served \in IF prog \in {"agent.py", "runtime_agent.py"} THEN AgentServed ELSE {<<>>}
    /\ fl = FlInit /\ gl = GlInit /\ all_tools = <<>> /\ tools = <<>>
    /\ memories \in IF prog = "agent.py"
                    THEN {<<>>, <<[id |-> <<"ResourceOptimizerMemory", "V2", "-", "y8">>]>>}
                    ELSE {<<>>}
    /\ config = [memory |-> NoEntry] /\ config_json = NoEntry
    /\ mcall = NoCall /\ created = <<>>
    /\ IdleLoop
    /\ IdleExt

NextScripts == NextSetup \/ NextAgent \/ NextRuntime

SpecScripts == InitScripts /\ [][NextScripts]_vars

\* the calls that raised, and whether nothing but the unwinding follows call i
Failed == {i \in 1..Len(trace) : ~trace[i].ok}
Ends(i) == \A j \in (i + 1)..Len(trace) : trace[j].call \in {"close", "fail"}
LastPrinted == printed[Len(printed)].kind
Errors(kind) == Cardinality({i \in 1..Len(printed) : printed[i].kind = kind})

IamFailure(i) ==
    /\ i < Len(trace) =>
          /\ i = 1 /\ trace[i].call = "create_role"
          /\ printed[1].kind = "Role already exists"
    /\ i = Len(trace) =>
          /\ pc \in {"exited", "crashed", "exists_sts"}
          /\ LastPrinted = CASE pc = "exited" -> "Error creating role"
                              [] pc = "crashed" -> "Traceback"
                              [] OTHER -> "Role already exists"

\* 03: a failed create_gateway_target prints an error and the loop goes on to the
\* next target, so that every target is attempted; a failed read or write of
\* config.json ends the script
TargetsFailure(i) ==
    IF trace[i].call = "create_gateway_target"
    THEN /\ Errors("Error") = Cardinality(Failed \cap Idx("create_gateway_target"))
         /\ i = Len(trace) =>
               \/ LastPrinted = "Error" /\ pc = AfterTarget(target_idx)
               \/ LastPrinted = "No targets were created" /\ pc = "exited"
                  /\ target_idx = Len(targets_to_create)
         /\ pc \in {"finish", "done", "exited", "crashed"} =>
               Count(trace, "create_gateway_target") = Len(targets_to_create)
    ELSE /\ Ends(i) /\ i = Len(trace)
         /\ pc = IF trace[i].call = "read_config" THEN "exited" ELSE "crashed"
         /\ LastPrinted \in {"config.json not found", "Traceback"}

\* agent.py: a failed startup step prints the error and ends main; a failed agent
\* call, or a failed input(), prints the error and the loop reads the next line
AgentFailure(i) ==
    IF trace[i].call \in {"agent_call", "input"}
    THEN i = Len(trace) => pc = "loop" /\ printed[1].kind = "Error"
    ELSE /\ Ends(i) /\ pc = "failed"
         /\ printed = <<Item("Failed to initialize agent", <<>>)>>

\* runtime_agent.py: a failed call at import ends the import; a failed call in
\* invoke ends that invocation, and later invocations are served; nothing is printed
RuntimeFailure(i) ==
    /\ printed = <<>>
    /\ IF pc = "import_failed"
       THEN Ends(i)
       ELSE /\ pc = "serving"
            /\ \A j \in (i + 1)..Len(trace) :
                  (\A k \in (i + 1)..j : trace[k].call # "invoke") => trace[j].call = "close"

----------------------------------------------------------------------------
(* agent.py main: which lines reach the agent *)

\* where trace holds an invocation of the agent, and the last call of trace
Invocations == Idx("agent_call") \cup Idx("agent_call_interrupted")
LastCall == trace[Len(trace)]

\* whether the step from trace to its next value is one invocation of the agent
InvokesOnce ==
    /\ Len(trace') > Len(trace)
    /\ trace'[Len(trace) + 1].call \in {"agent_call", "agent_call_interrupted"}
    /\ \A j \in (Len(trace) + 2)..Len(trace') : trace'[j] = Ev("close")

\* C11: the loop invokes the agent exactly once for each line that is neither
\* blank nor 'exit' in any letter case, and never for a blank line or for 'exit':
\* every invocation comes right after a line was read, the line then being
\* neither blank nor 'exit'; after such a line the next step is the one
\* invocation; after a blank line nothing is printed and the loop reads again.
C11_InvokedOncePerLine ==
    /\ [](prog = "agent.py" /\ trace # <<>> =>
            /\ \A i \in Invocations : i > 1 /\ trace[i - 1] = Ev("input")
            /\ LastCall = Ev("input") => pc \in {"loop", "call"}
            /\ pc = "call" =>
                  /\ LastCall = Ev("input")
                  /\ Strip(user_input) # <<>>
                  /\ LowerLine(user_input) # <<"exit">>
            /\ pc = "loop" /\ LastCall = Ev("input") =>
                  /\ Strip(user_input) = <<>>
                  /\ printed = <<>>
            /\ pc = "done" /\ printed = <<Item("Goodbye", <<>>)>> =>
                  /\ LowerLine(user_input) = <<"exit">>
                  /\ trace[Len(trace) - 1] = Ev("input"))
    /\ [][prog = "agent.py" =>
            /\ pc = "call" => InvokesOnce
            /\ pc # "call" => Len(SelectSeq(trace', LAMBDA e : e.call \in
                                   {"agent_call", "agent_call_interrupted"}))
                              = Cardinality(Invocations)]_vars

\* a whitespace-only line was read after an earlier line had reached the agent
C11_Witness ==
    /\ prog = "agent.py" /\ pc = "loop" /\ trace # <<>>
    /\ LastCall = Ev("input") /\ user_input = <<" ">>
    /\ Invocations # {}

\* what main prints when it leaves the loop: on 'exit', on KeyboardInterrupt, and
\* on EOFError
Farewells ==
    {<<Item("Goodbye", <<>>)>>, <<Item("Exiting", <<>>)>>,
     <<Item("Input stream ended", <<>>)>>}

\* the last call of trace is an agent call or an input() that raised an Exception
LineFailed ==
    /\ trace # <<>> /\ ~LastCall.ok
    /\ LastCall.call \in {"agent_call", "input"}

\* C12: the loop ends only on 'exit' in any letter case, on KeyboardInterrupt and
\* on EOFError; any other exception raised while a line is handled is printed,
\* the session stays open and the loop reads the next line, however many calls
\* have failed before.
C12_LoopEndsOnlyOnExit ==
    /\ [](prog = "agent.py" =>
            /\ pc = "done" =>
                  /\ printed \in Farewells
                  /\ printed = <<Item("Goodbye", <<>>)>> =>
                        LowerLine(user_input) = <<"exit">>
                  /\ \A i \in 1..Len(trace) :
                        ~trace[i].ok => trace[i].call \in {"agent_call", "input"}
            /\ LineFailed =>
                  /\ pc = "loop" /\ session = "open"
                  /\ printed[1] \in {Item("Error", msg) : msg \in ExceptionMessages}
                  /\ Count(trace, "input") < MaxInputs => ENABLED ReadInput)
    /\ [][prog = "agent.py" /\ pc \in {"loop", "call"} /\ pc' \notin {"loop", "call"} =>
            /\ pc' = "done" /\ printed' \in Farewells
            /\ trace'[Len(trace) + 1] \in {Ev("input"), Ev("agent_call_interrupted")}]_vars

\* two agent calls in a row have failed and the loop is reading again
C12_Witness ==
    /\ prog = "agent.py" /\ pc = "loop" /\ session = "open"
    /\ Len(trace) >= 4 /\ LineFailed
    /\ LastCall = Raised("agent_call")
    /\ trace[Len(trace) - 2] = Raised("agent_call")
    /\ Count(trace, "input") < MaxInputs

====
